---- MODULE Spec2Model ----
(***************************************************************************)
(* A model of link-sync: the in-memory tree of remote FileNodes            *)
(* (storage.py), the planner of missing, stale and excess files            *)
(* (printers.py) and the per-printer worker _sync (__main__.py).           *)
(*                                                                         *)
(* Strings are sequences of one-character strings, so that str.startswith, *)
(* Path.suffix, str(Path) and Path(str) are computed as Python computes    *)
(* them.  A pathlib.Path is a record [abs, parts].                         *)
(***************************************************************************)
EXTENDS Integers, Sequences, FiniteSets, TLC

\* Largest number of local files handed to one run.
MaxLocal == 2

\* Largest number of remote calls of one run that the environment lets fail.
MaxFailures == 1

\* printers.py:207  timedelta(seconds=60)
StaleSeconds == 60

-----------------------------------------------------------------------------
(* Strings and pathlib *)

RECURSIVE JoinParts(_)
\* "/".join(parts)
JoinParts(parts) ==
    IF parts = <<>> THEN <<>>
    ELSE IF Len(parts) = 1 THEN parts[1]
    ELSE parts[1] \o <<"/">> \o JoinParts(Tail(parts))

\* str(path) of a PurePosixPath: "/a/b", "a/b", and "." for the empty path.
PathStr(p) ==
    IF p.abs THEN <<"/">> \o JoinParts(p.parts)
    ELSE IF p.parts = <<>> THEN <<".">>
    ELSE JoinParts(p.parts)

RECURSIVE SplitParts(_, _)
\* The components of a path string: split on "/", dropping empty and "."
\* components as PurePosixPath does when it parses a string.
SplitParts(s, cur) ==
    LET keep == IF cur = <<>> \/ cur = <<".">> THEN <<>> ELSE <<cur>>
    IN  IF s = <<>> THEN keep
        ELSE IF Head(s) = "/" THEN keep \o SplitParts(Tail(s), <<>>)
        ELSE SplitParts(Tail(s), Append(cur, Head(s)))

\* Path(string)
ParsePath(s) ==
    [abs |-> (s # <<>> /\ Head(s) = "/"), parts |-> SplitParts(s, <<>>)]

\* Path(p, q) and p.joinpath(q): an absolute q discards p.
PathJoin(p, q) ==
    IF q.abs THEN q ELSE [abs |-> p.abs, parts |-> p.parts \o q.parts]

\* path.parent
PathParent(p) ==
    IF p.parts = <<>> THEN p
    ELSE [abs |-> p.abs, parts |-> SubSeq(p.parts, 1, Len(p.parts) - 1)]

\* path.parents: the ancestors of p, nearest first, as prefix lengths.
PathPrefix(p, k) == [abs |-> p.abs, parts |-> SubSeq(p.parts, 1, k)]

\* path.relative_to(base), for a base that is an ancestor of p.
RelativeTo(p, base) ==
    [abs |-> FALSE,
     parts |-> SubSeq(p.parts, Len(base.parts) + 1, Len(p.parts))]

\* bool(path.suffix): the last component has a "." that is neither its first
\* nor its last character (pathlib: 0 < name.rfind(".") < len(name) - 1).
HasSuffix(p) ==
    /\ p.parts # <<>>
    /\ LET name == p.parts[Len(p.parts)]
           dots == {i \in 1..Len(name) : name[i] = "."}
       IN  /\ dots # {}
           /\ LET last == CHOOSE i \in dots : \A j \in dots : j <= i
              IN  1 < last /\ last < Len(name)

\* s.startswith(t)
StartsWith(s, t) == Len(t) <= Len(s) /\ SubSeq(s, 1, Len(t)) = t

-----------------------------------------------------------------------------
(* FileNode.  A node is a record                                           *)
(*   [path, display_name, type, has_ts, m_timestamp]                       *)
(* where path is the sequence of 8.3 names from the root down to the node  *)
(* (the node's name is its last element, its parent_node is the node whose *)
(* path is one shorter), display_name is <<>> when absent, and has_ts is   *)
(* FALSE when m_timestamp is None.  A tree is the set of the nodes         *)
(* reachable from root_node through child_nodes.                           *)

NodeName(n) == n.path[Len(n.path)]

HasParent(n) == Len(n.path) > 1

ParentNode(tree, n) ==
    CHOOSE m \in tree : m.path = SubSeq(n.path, 1, Len(n.path) - 1)

RootNode(tree) == CHOOSE n \in tree : ~HasParent(n)

is_dir(n) == n.type = "FOLDER"

\* display_name or name
DisplayOrName(n) == IF n.display_name # <<>> THEN n.display_name ELSE NodeName(n)

RECURSIVE full_short_path(_, _)
full_short_path(tree, n) ==
    IF HasParent(n)
    THEN full_short_path(tree, ParentNode(tree, n)) \o <<"/">> \o NodeName(n)
    ELSE <<"/">> \o NodeName(n)

RECURSIVE full_display_path(_, _)
full_display_path(tree, n) ==
    IF HasParent(n)
    THEN full_display_path(tree, ParentNode(tree, n)) \o <<"/">> \o DisplayOrName(n)
    ELSE <<"/">> \o DisplayOrName(n)

\* HasDatetime, were a timestamp of 0 taken for a time.
HasDatetime_ZeroCounts(n) == n.has_ts

\* m_datetime is None when m_timestamp is None or 0.
HasDatetime(n) == n.has_ts /\ n.m_timestamp # 0

\* datetime.utcfromtimestamp(m_timestamp), as naive seconds.
m_datetime(n) == n.m_timestamp

\* The nodes gen_nodes() yields.
gen_nodes(tree) == tree

\* get_node_for_display_path: the first node whose display path is the
\* string; the empty set stands for None.
get_node_for_display_path(tree, s) ==
    LET hits == {n \in gen_nodes(tree) : full_display_path(tree, n) = s}
    IN  IF hits = {} THEN {} ELSE {CHOOSE n \in hits : TRUE}

get_node_for_short_path(tree, s) ==
    LET hits == {n \in gen_nodes(tree) : full_short_path(tree, n) = s}
    IN  IF hits = {} THEN {} ELSE {CHOOSE n \in hits : TRUE}

RECURSIVE ShorterFrom(_, _, _)
\* The loop of get_shorter_path over remote_path.parents, from the parent
\* of k components down to the one of none.
ShorterFrom(tree, remote_path, k) ==
    LET parent == PathPrefix(remote_path, k)
        hit    == get_node_for_display_path(tree, PathStr(parent))
    IN  IF hit # {}
        THEN PathJoin(ParsePath(full_short_path(tree, CHOOSE n \in hit : TRUE)),
                      RelativeTo(remote_path, parent))
        ELSE IF k = 0 THEN remote_path
        ELSE ShorterFrom(tree, remote_path, k - 1)

\* get_shorter_path, were the ancestors tried from the topmost one only.
get_shorter_path_TopmostOnly(tree, remote_path) ==
    IF remote_path.parts = <<>> THEN remote_path
    ELSE ShorterFrom(tree, remote_path, IF Len(remote_path.parts) > 1 THEN 1 ELSE 0)

get_shorter_path(tree, remote_path) ==
    IF remote_path.parts = <<>> THEN remote_path
    ELSE ShorterFrom(tree, remote_path, Len(remote_path.parts) - 1)

-----------------------------------------------------------------------------
(* Printer: the planner *)

\* class State, by member name.
State == {"BUSY", "FINISHED", "STOPPED", "IDLE", "PAUSED", "PRINTING", "READY"}

IDLE_STATES == {"FINISHED", "IDLE", "READY"}

\* str.upper() on the state strings a status payload can carry.
Upper(s) == IF s = "idle" THEN "IDLE" ELSE s

\* get_state: a status response is [kind, state], kind "ok" for a 2xx answer,
\* "error" for any other answer; state is the payload's printer.state,
\* "<missing>" when the payload has none and "<nodict>" when the payload is
\* not a dictionary.  "None" stands for None.
get_state(response) ==
    IF response.kind = "ok" /\ response.state # "<nodict>"
    THEN IF response.state = "<missing>" THEN "None"
         ELSE IF Upper(response.state) \in State THEN Upper(response.state)
         ELSE "None"
    ELSE "None"

\* datetime.fromtimestamp(st_mtime): a naive datetime in the local time zone,
\* utc_offset seconds ahead of the naive UTC datetime of the same instant.
local_datetime(f, offset) == f.mtime + offset

\* destination_path.absolute is a bound method, never called: always true.
PathAbsoluteAttr(p) == TRUE

\* bool(destination_path): a Path defines neither __bool__ nor __len__.
PathTruthy(p) == TRUE

\* The remote path gen_missing_or_stale_files gives a local file.
MissingRemotePath(tree, destination_path, relative_to_path, f) ==
    LET relative_file == RelativeTo(f.path, relative_to_path)
        root == ParsePath(full_display_path(tree, RootNode(tree)))
    IN  IF PathTruthy(destination_path)
        THEN PathJoin(PathJoin(root, destination_path), relative_file)
        ELSE PathJoin(root, relative_file)

\* YieldFor, were the branch of a missing file not an else branch.
YieldFor_FallsThrough(tree, destination_path, relative_to_path, offset, f) ==
    LET remote_path == MissingRemotePath(tree, destination_path,
                                         relative_to_path, f)
        hit == get_node_for_display_path(tree, PathStr(remote_path))
        absent == << [local_path |-> f.path, remote_path |-> remote_path,
                      is_stale |-> FALSE] >>
    IN  IF hit # {}
        THEN LET node == CHOOSE n \in hit : TRUE
             IN  IF /\ HasDatetime(node)
                    /\ local_datetime(f, offset) > m_datetime(node) + StaleSeconds
                 THEN << [local_path |-> f.path, remote_path |-> remote_path,
                          is_stale |-> TRUE] >> \o absent
                 ELSE <<>>
        ELSE absent

\* One turn of the loop of gen_missing_or_stale_files: what it yields for
\* one local file, as a sequence.
YieldFor(tree, destination_path, relative_to_path, offset, f) ==
    LET remote_path == MissingRemotePath(tree, destination_path,
                                         relative_to_path, f)
        hit == get_node_for_display_path(tree, PathStr(remote_path))
    IN  IF hit # {}
        THEN LET node == CHOOSE n \in hit : TRUE
             IN  IF /\ HasDatetime(node)
                    /\ local_datetime(f, offset) > m_datetime(node) + StaleSeconds
                 THEN << [local_path |-> f.path, remote_path |-> remote_path,
                          is_stale |-> TRUE] >>
                 ELSE <<>>
        ELSE << [local_path |-> f.path, remote_path |-> remote_path,
                 is_stale |-> FALSE] >>

RECURSIVE SeqOf(_)
\* An iteration order of a set.
SeqOf(S) ==
    IF S = {} THEN <<>>
    ELSE LET x == CHOOSE y \in S : TRUE IN <<x>> \o SeqOf(S \ {x})

RECURSIVE GenOver(_, _, _, _, _)
GenOver(tree, destination_path, relative_to_path, offset, files) ==
    IF files = <<>> THEN <<>>
    ELSE YieldFor(tree, destination_path, relative_to_path, offset, Head(files))
         \o GenOver(tree, destination_path, relative_to_path, offset, Tail(files))

\* The sequence of MissingOrStaleFile objects the generator yields.
gen_missing_or_stale_files(tree, destination_path, local, relative_to_path, offset) ==
    GenOver(tree, destination_path, relative_to_path, offset, SeqOf(local))

\* ExcessRemotePath, were the destination left out of the path.
ExcessRemotePath_Unjoined(destination_path, relative_to_path, f) ==
    RelativeTo(f.path, relative_to_path)

\* The remote path get_excess_files gives a local file.
ExcessRemotePath(destination_path, relative_to_path, f) ==
    PathJoin(destination_path, RelativeTo(f.path, relative_to_path))

\* The string get_excess_files looks the destination node up by.
DestNodePath(tree, destination_path) ==
    IF PathAbsoluteAttr(destination_path)
    THEN PathStr(destination_path)
    ELSE full_display_path(tree, RootNode(tree)) \o <<"/">> \o PathStr(destination_path)

\* The candidate test of get_excess_files.
IsCandidate(tree, dest_node, node) ==
    /\ StartsWith(full_short_path(tree, node), full_short_path(tree, dest_node))
    /\ ~is_dir(node)

\* RemovedPaths, were the nodes of the local files not eliminated.
RemovedPaths_None(tree, remote_nodes) == {}

\* The display paths removed from the candidates: those of the nodes the
\* local files map to.
RemovedPaths(tree, remote_nodes) ==
    {full_display_path(tree, n) : n \in remote_nodes}

\* get_excess_files, were every file of the tree taken for excess when the
\* destination node is not found.
get_excess_files_AllWhenUnknown(tree, destination_path, local, relative_to_path) ==
    LET hit == get_node_for_display_path(tree, DestNodePath(tree, destination_path))
    IN  IF hit = {}
        THEN {ParsePath(full_display_path(tree, n)) : n \in {m \in tree : ~is_dir(m)}}
        ELSE LET dest_node == CHOOSE n \in hit : TRUE
                 excess_nodes == {full_display_path(tree, n) :
                                    n \in {m \in gen_nodes(tree) :
                                             IsCandidate(tree, dest_node, m)}}
                 remote_nodes == UNION {get_node_for_display_path(tree,
                                          PathStr(ExcessRemotePath(destination_path,
                                                                   relative_to_path, f))) :
                                        f \in local}
             IN  {ParsePath(s) : s \in excess_nodes \ RemovedPaths(tree, remote_nodes)}

get_excess_files(tree, destination_path, local, relative_to_path) ==
    LET hit == get_node_for_display_path(tree, DestNodePath(tree, destination_path))
    IN  IF hit = {} THEN {}
        ELSE LET dest_node == CHOOSE n \in hit : TRUE
                 excess_nodes == {full_display_path(tree, n) :
                                    n \in {m \in gen_nodes(tree) :
                                             IsCandidate(tree, dest_node, m)}}
                 remote_nodes == UNION {get_node_for_display_path(tree,
                                          PathStr(ExcessRemotePath(destination_path,
                                                                   relative_to_path, f))) :
                                        f \in local}
             IN  {ParsePath(s) : s \in excess_nodes \ RemovedPaths(tree, remote_nodes)}

-----------------------------------------------------------------------------
(* The device behind the transport.  Its files are a set of nodes, as a    *)
(* listing would report them.  A path sent in a request names an entry     *)
(* component by component, each component by the entry's 8.3 name or by    *)
(* its display name.                                                       *)

ComponentMatches(comp, n) == comp = NodeName(n) \/ comp = DisplayOrName(n)

\* The entries of the device that the path p names.
DeviceFind(dev, p) ==
    {e \in dev :
        /\ Len(e.path) = Len(p.parts)
        /\ \A k \in 1..Len(e.path) :
              \E a \in dev : /\ a.path = SubSeq(e.path, 1, k)
                             /\ ComponentMatches(p.parts[k], a)}

\* The 8.3 name the device gives a new entry.
ShortChar(c) ==
    CASE c = "a" -> "A" [] c = "b" -> "B" [] c = "f" -> "F" [] c = "g" -> "G"
      [] c = "n" -> "N" [] c = "r" -> "R" [] c = "s" -> "S" [] c = "u" -> "U"
      [] c = "x" -> "X" [] OTHER -> c

ShortName(name) == [i \in 1..Len(name) |-> ShortChar(name[i])]

RECURSIVE DevicePut(_, _, _, _, _)
\* The device after a PUT of p: the missing entries along p from level k on
\* are created, folders above the last component; an existing file at p gets
\* the new timestamp.
DevicePut(dev, p, k, type, ts) ==
    IF k > Len(p.parts) THEN dev
    ELSE LET here == DeviceFind(dev, PathPrefix(p, k))
             last == (k = Len(p.parts))
         IN  IF here # {}
             THEN LET e == CHOOSE x \in here : TRUE
                  IN  IF last /\ type # "FOLDER" /\ ~is_dir(e)
                      THEN (dev \ {e}) \cup {[e EXCEPT !.has_ts = TRUE, !.m_timestamp = ts]}
                      ELSE IF last THEN dev
                      ELSE DevicePut(dev, p, k + 1, type, ts)
             ELSE IF k = 1 THEN dev
             ELSE LET up == CHOOSE x \in DeviceFind(dev, PathPrefix(p, k - 1)) : TRUE
                      new == [path |-> Append(up.path, ShortName(p.parts[k])),
                              display_name |-> p.parts[k],
                              type |-> IF last THEN type ELSE "FOLDER",
                              has_ts |-> TRUE, m_timestamp |-> ts]
                  IN  IF is_dir(up)
                      THEN DevicePut(dev \cup {new}, p, k + 1, type, ts)
                      ELSE dev

\* The device after a DELETE of the file p names.
DeviceDelete(dev, p) == dev \ {e \in DeviceFind(dev, p) : ~is_dir(e)}

\* The device after one call; only a call the device answers with success
\* changes it.
DeviceAfter(dev, call, ts) ==
    IF call.result # "ok" THEN dev
    ELSE CASE call.op = "DELETE" -> DeviceDelete(dev, ParsePath(call.path))
           [] call.op = "MKDIR"  -> DevicePut(dev, ParsePath(call.path), 1, "FOLDER", ts)
           [] call.op = "UPLOAD" -> DevicePut(dev, ParsePath(call.path), 1, "PRINT_FILE", ts)
           [] OTHER -> dev

RECURSIVE DeviceAfterAll(_, _, _)
DeviceAfterAll(dev, cs, ts) ==
    IF cs = <<>> THEN dev
    ELSE DeviceAfterAll(DeviceAfter(dev, Head(cs), ts), Tail(cs), ts)

-----------------------------------------------------------------------------
(* Storage: the requests of delete_file, create_remote_folder, upload_file *)
(* and _build_storage                                                      *)

\* What the transport does with a request: the device answers with a 2xx
\* status, it answers with another status, or session.request raises.
Results == {"ok", "error", "raise"}

\* A request.  item is the display path of the planned item it is made for,
\* phase the part of _sync that makes it.
Request(op, path, phase, item) ==
    [op |-> op, path |-> path, phase |-> phase, item |-> item]

\* A remote call: a request and what the transport did with it.
Answered(req, result) ==
    [op |-> req.op, path |-> req.path, phase |-> req.phase, item |-> req.item,
     result |-> result]

\* delete_file: the try/except around files_response.
delete_file_returns(result) == IF result = "raise" THEN "False" ELSE "True"

\* upload_file_returns, were the exception of the request not caught.
upload_file_returns_Uncaught(result) == IF result = "raise" THEN "raises" ELSE "True"

\* upload_file: the try/except around files_response.
upload_file_returns(result) == IF result = "raise" THEN "False" ELSE "True"

\* create_remote_folder: the try/except around files_response.
create_remote_folder_returns(result) == IF result = "raise" THEN "False" ELSE "True"

\* What the function that made a call returns; "raises" when the exception
\* leaves it.
Returns(call) ==
    CASE call.op = "DELETE" -> delete_file_returns(call.result)
      [] call.op = "UPLOAD" -> upload_file_returns(call.result)
      [] call.op = "MKDIR"  -> create_remote_folder_returns(call.result)
      [] OTHER -> IF call.result = "raise" THEN "raises" ELSE "True"

\* The request of delete_file(node).
delete_file(tree, node, phase, item) ==
    << Request("DELETE", full_short_path(tree, node), phase, item) >>

\* The request of create_remote_folder(remote_path), none when a node has
\* that display path.
create_remote_folder(tree, remote_path, phase, item) ==
    IF get_node_for_display_path(tree, PathStr(remote_path)) # {} THEN <<>>
    ELSE << Request("MKDIR", PathStr(get_shorter_path(tree, remote_path)),
                    phase, item) >>

\* upload_file, were the folder requested whether or not a node has the
\* parent's short path.
upload_file_AlwaysCreatesFolder(tree, remote_path, phase, item) ==
    LET shorter_path == get_shorter_path(tree, remote_path)
        parent_path  == IF HasSuffix(shorter_path) THEN PathParent(shorter_path)
                        ELSE shorter_path
    IN  create_remote_folder(tree, parent_path, phase, item)
        \o << Request("UPLOAD", PathStr(shorter_path), phase, item) >>

\* The requests of upload_file(local_path, remote_path).
upload_file(tree, remote_path, phase, item) ==
    LET shorter_path == get_shorter_path(tree, remote_path)
        parent_path  == IF HasSuffix(shorter_path) THEN PathParent(shorter_path)
                        ELSE shorter_path
        folder == IF get_node_for_short_path(tree, PathStr(parent_path)) = {}
                  THEN create_remote_folder(tree, parent_path, phase, item)
                  ELSE <<>>
    IN  folder \o << Request("UPLOAD", PathStr(shorter_path), phase, item) >>

\* The number of calls of a log that were not answered with success.
FailCount(cs) == Cardinality({i \in 1..Len(cs) : cs[i].result # "ok"})

\* The ways the transport can treat n requests in a row, at most budget of
\* them not answered with success.
Answers(n, budget) ==
    {rs \in [1..n -> Results] : Cardinality({i \in 1..n : rs[i] # "ok"}) <= budget}

\* The calls made when reqs are to be made in turn and the transport treats
\* them as rs: all of them, or those up to the first whose function raises.
Made(reqs, rs) ==
    LET all   == [i \in 1..Len(reqs) |-> Answered(reqs[i], rs[i])]
        stops == {i \in 1..Len(reqs) : Returns(all[i]) = "raises"}
    IN  IF stops = {} THEN all
        ELSE SubSeq(all, 1, CHOOSE i \in stops : \A j \in stops : i <= j)

\* An exception left the function that made one of the calls.
Raised(cs) == \E i \in 1..Len(cs) : Returns(cs[i]) = "raises"

IsAncestor(a, n) ==
    Len(a.path) < Len(n.path) /\ SubSeq(n.path, 1, Len(a.path)) = a.path

\* Listed, were a folder below the root passed over and its entries added
\* all the same.
Listed_FoldersPassedOver(dev, silent) ==
    {n \in dev : /\ ~(is_dir(n) /\ HasParent(n))
                 /\ \A a \in dev : IsAncestor(a, n) => a \notin silent}

\* Listed, were the children of the root the only entries added.
Listed_RootChildrenOnly(dev, silent) ==
    {n \in dev : Len(n.path) <= 2 /\ \A a \in dev : IsAncestor(a, n) => a \notin silent}

\* The entries _build_storage reaches when the listing of the folders in
\* silent gives no children (not a 2xx answer, or not a dictionary).
Listed(dev, silent) ==
    {n \in dev : \A a \in dev : IsAncestor(a, n) => a \notin silent}

\* The sets of entries _build_storage can have added when the listing of
\* folder at raises: the folders on the way to it, and of their other
\* children any, each with all that its own listing reaches.
PartlyListed(dev, silent, at) ==
    LET all == Listed(dev, silent \cup {at})
    IN  {P \in SUBSET all :
           /\ at \in P
           /\ \A n \in P : \A a \in all : IsAncestor(a, n) => a \in P
           /\ \A z \in P : (is_dir(z) /\ z # at /\ ~IsAncestor(z, at)) =>
                 \A n \in all : IsAncestor(z, n) => n \in P}

\* The listing calls of a rebuild, one per folder reached.
ListingCalls(dev, reached, silent, at) ==
    LET folders == SeqOf({n \in reached : is_dir(n)})
    IN  [i \in 1..Len(folders) |->
            Answered(Request("LIST", full_short_path(dev, folders[i]), "reload", <<>>),
                     IF folders[i] \in at THEN "raise"
                     ELSE IF folders[i] \in silent THEN "error" ELSE "ok")]

-----------------------------------------------------------------------------
(* _sync, for one printer *)

VARIABLES
    tree,             \* printer.storage: the FileNodes reachable from root_node
    device,           \* the files the device holds
    local_files,      \* set of [path, mtime]
    relative_to_path,
    destination_path,
    ignore_state,
    execute,
    utc_offset,       \* the time zone of the machine link-sync runs on
    pc,               \* where _sync is
    printer_state,    \* what get_state returned
    excess_files,     \* the set of Paths get_excess_files returned
    missing_files,    \* the MissingOrStaleFile objects, in the order yielded
    todo_excess,      \* excess paths the first loop has yet to visit
    todo_missing,     \* indices of missing_files the second loop has yet to visit
    calls,            \* the remote calls made so far, in order
    report            \* the per-file outcomes printed so far, in order

\* process(): the main thread, the pool and the workers that are not running.
\* The variables above are those of the worker thread that is running.
VARIABLES
    constructed,      \* how many Printers from_config has constructed
    printers,         \* the names left by included_printers / excluded_printers
    pool_size,        \* cpu_count()
    main_pc,          \* where process() is
    cur,              \* the printer whose worker is running
    parked,           \* printer name -> state of its worker while not running
    successes         \* the set process() collects from the futures

process_vars == <<constructed, printers, pool_size, main_pc, cur, parked, successes>>

\* Storage and FileNode used directly, as the tests use them.
VARIABLES
    last_call,        \* the last direct call: [op, arg, ret]
    file_nodes        \* FileNode objects by identity: their attributes and
                      \* what cached_property has stored in them

api_vars == <<last_call, file_nodes>>

vars == <<tree, device, local_files, relative_to_path, destination_path,
          ignore_state, execute, utc_offset, pc, printer_state, excess_files,
          missing_files, todo_excess, todo_missing, calls, report,
          constructed, printers, pool_size, main_pc, cur, parked, successes,
          last_call, file_nodes>>

inputs == <<local_files, relative_to_path, destination_path, ignore_state,
            execute, utc_offset>>

\* GuardSkips, were ignore_state not looked at.
GuardSkips_AlwaysGuards(state, ignore) == state \notin IDLE_STATES

\* if printer_state not in IDLE_STATES and not ignore_state: return
GuardSkips(state, ignore) == state \notin IDLE_STATES /\ ~ignore

\* DryRun, were the early return missing.
DryRun_Never(exec) == FALSE

\* if not execute: return
DryRun(exec) == ~exec

\* Phase, were the loop over missing_files placed first.
Phase_UploadFirst(excess_left, missing_left) ==
    IF missing_left # {} THEN "upload"
    ELSE IF excess_left # {} THEN "prune"
    ELSE "reload"

\* The two loops of _sync, in order, then reload.
Phase(excess_left, missing_left) ==
    IF excess_left # {} THEN "prune"
    ELSE IF missing_left # {} THEN "upload"
    ELSE "reload"

\* printer.get_state(), then the guard.
GetState ==
    /\ pc = "start"
    /\ \E response \in [kind : {"ok"}, state : {"IDLE", "idle", "FINISHED", "READY",
                                               "PRINTING", "ATTENTION",
                                               "<missing>", "<nodict>"}]
                       \cup [kind : {"error", "raise"}, state : {"<nodict>"}] :
          /\ response.kind # "ok" => MaxFailures > 0
          /\ calls' = Append(calls, Answered(Request("STATUS", <<>>, "guard", <<>>),
                                             response.kind))
          /\ IF response.kind = "raise"
             THEN pc' = "raised" /\ UNCHANGED printer_state
             ELSE /\ printer_state' = get_state(response)
                  /\ pc' = IF GuardSkips(get_state(response), ignore_state)
                           THEN "skipped" ELSE "plan"
    /\ UNCHANGED <<tree, device, inputs, excess_files, missing_files,
                   todo_excess, todo_missing, report, process_vars, api_vars>>

\* get_excess_files, gen_missing_or_stale_files, the printed plan, and the
\* return of a dry run.
Plan ==
    /\ pc = "plan"
    /\ excess_files' = get_excess_files(tree, destination_path, local_files,
                                        relative_to_path)
    /\ missing_files' = gen_missing_or_stale_files(tree, destination_path, local_files,
                                                   relative_to_path, utc_offset)
    /\ IF DryRun(execute)
       THEN pc' = "reported" /\ todo_excess' = {} /\ todo_missing' = {}
       ELSE /\ todo_excess' = excess_files'
            /\ todo_missing' = 1..Len(missing_files')
            /\ pc' = Phase(todo_excess', todo_missing')
    /\ UNCHANGED <<tree, device, inputs, printer_state, calls, report, process_vars, api_vars>>

\* One turn of the loop over excess_files.
Prune ==
    /\ pc = "prune"
    /\ \E excess_path \in todo_excess :
          LET item == PathStr(excess_path)
              hit  == get_node_for_display_path(tree, item)
              reqs == IF hit = {} THEN <<>>
                      ELSE delete_file(tree, CHOOSE n \in hit : TRUE, "prune", item)
          IN  \E rs \in Answers(Len(reqs), MaxFailures - FailCount(calls)) :
                 LET new == Made(reqs, rs)
                 IN  /\ calls' = calls \o new
                     /\ device' = DeviceAfterAll(device, new, 0)
                     /\ IF Raised(new)
                        THEN pc' = "raised" /\ UNCHANGED <<report, todo_excess>>
                        ELSE /\ report' = Append(report,
                                    [item |-> item, what |-> "delete",
                                     ret |-> IF hit = {} THEN "absent"
                                             ELSE Returns(new[Len(new)])])
                             /\ todo_excess' = todo_excess \ {excess_path}
                             /\ pc' = Phase(todo_excess', todo_missing)
    /\ UNCHANGED <<tree, inputs, printer_state, excess_files, missing_files, todo_missing,
                   process_vars, api_vars>>

\* Upload, were the tree brought up to date with the device by every request.
Upload_TreeFollowsDevice ==
    /\ pc = "upload"
    /\ \E i \in todo_missing :
          LET missing == missing_files[i]
              item == PathStr(missing.remote_path)
              hit  == IF missing.is_stale
                      THEN get_node_for_display_path(tree, item) ELSE {}
              reqs == (IF hit = {} THEN <<>>
                       ELSE delete_file(tree, CHOOSE n \in hit : TRUE, "upload", item))
                      \o upload_file(tree, missing.remote_path, "upload", item)
              ts   == (CHOOSE f \in local_files : f.path = missing.local_path).mtime
          IN  \E rs \in Answers(Len(reqs), MaxFailures - FailCount(calls)) :
                 LET new == Made(reqs, rs)
                 IN  /\ calls' = calls \o new
                     /\ device' = DeviceAfterAll(device, new, ts)
                     /\ tree' = DeviceAfterAll(device, new, ts)
                     /\ IF Raised(new)
                        THEN pc' = "raised" /\ UNCHANGED <<report, todo_missing>>
                        ELSE /\ report' = Append(report,
                                    [item |-> item, what |-> "upload",
                                     ret |-> Returns(new[Len(new)])])
                             /\ todo_missing' = todo_missing \ {i}
                             /\ pc' = Phase(todo_excess, todo_missing')
    /\ UNCHANGED <<inputs, printer_state, excess_files, missing_files, todo_excess,
                   process_vars, api_vars>>

\* One turn of the loop over missing_files.
Upload ==
    /\ pc = "upload"
    /\ \E i \in todo_missing :
          LET missing == missing_files[i]
              item == PathStr(missing.remote_path)
              hit  == IF missing.is_stale
                      THEN get_node_for_display_path(tree, item) ELSE {}
              reqs == (IF hit = {} THEN <<>>
                       ELSE delete_file(tree, CHOOSE n \in hit : TRUE, "upload", item))
                      \o upload_file(tree, missing.remote_path, "upload", item)
              ts   == (CHOOSE f \in local_files : f.path = missing.local_path).mtime
          IN  \E rs \in Answers(Len(reqs), MaxFailures - FailCount(calls)) :
                 LET new == Made(reqs, rs)
                 IN  /\ calls' = calls \o new
                     /\ device' = DeviceAfterAll(device, new, ts)
                     /\ IF Raised(new)
                        THEN pc' = "raised" /\ UNCHANGED <<report, todo_missing>>
                        ELSE /\ report' = Append(report,
                                    [item |-> item, what |-> "upload",
                                     ret |-> Returns(new[Len(new)])])
                             /\ todo_missing' = todo_missing \ {i}
                             /\ pc' = Phase(todo_excess, todo_missing')
    /\ UNCHANGED <<tree, inputs, printer_state, excess_files, missing_files, todo_excess,
                   process_vars, api_vars>>

\* printer.storage.reload(): root_node stays, its children are listed anew.
\* The listing of the folders in silent gives no children; that of the
\* folder in at, if any, raises.
Reload ==
    /\ pc = "reload"
    /\ \E silent \in SUBSET {n \in device : is_dir(n)} :
          /\ FailCount(calls) + Cardinality(silent) <= MaxFailures
          /\ silent \subseteq Listed(device, silent)
          /\ \E at \in {{}} \cup {{n} : n \in {m \in Listed(device, silent) : is_dir(m)} \ silent} :
                /\ FailCount(calls) + Cardinality(silent) + Cardinality(at) <= MaxFailures
                /\ \E reached \in IF at = {} THEN {Listed(device, silent)}
                                  ELSE PartlyListed(device, silent, CHOOSE n \in at : TRUE) :
                      /\ silent \subseteq reached
                      /\ calls' = calls \o ListingCalls(device, reached, silent, at)
                      /\ tree' = {RootNode(tree)} \cup {n \in reached : HasParent(n)}
                      /\ pc' = IF at = {} THEN "done" ELSE "raised"
    /\ UNCHANGED <<device, inputs, printer_state, excess_files, missing_files,
                   todo_excess, todo_missing, report, process_vars, api_vars>>

-----------------------------------------------------------------------------
(* The inputs *)

Node(path, display_name, type, has_ts, m_timestamp) ==
    [path |-> path, display_name |-> display_name, type |-> type,
     has_ts |-> has_ts, m_timestamp |-> m_timestamp]

\* The storage root and a folder, 8.3 names "U" and "A", shown as "u" and "a".
RootU == Node(<< <<"U">> >>, <<"u">>, "FOLDER", TRUE, 0)

FolderA == Node(<< <<"U">>, <<"A">> >>, <<"a">>, "FOLDER", FALSE, 0)

\* A sibling folder whose 8.3 name begins with that of FolderA, and its file.
FolderAB == Node(<< <<"U">>, <<"A", "B">> >>, <<"a", "b">>, "FOLDER", FALSE, 0)

FileX == Node(<< <<"U">>, <<"A", "B">>, <<"X", ".", "G">> >>, <<"x", ".", "g">>,
              "PRINT_FILE", TRUE, 1000)

\* The file "f.g" in FolderA, with or without a timestamp.
FileF(has_ts, m_timestamp) ==
    Node(<< <<"U">>, <<"A">>, <<"F", ".", "G">> >>, <<"f", ".", "g">>,
         "PRINT_FILE", has_ts, m_timestamp)

\* A file without an extension in FolderA.
FileR == Node(<< <<"U">>, <<"A">>, <<"R">> >>, <<"r">>, "PRINT_FILE", TRUE, 1000)

Trees ==
    {{RootU, FolderA} \cup ab \cup f \cup r :
        ab \in {{}, {FolderAB, FileX}},
        f \in {{}, {FileF(FALSE, 0)}, {FileF(TRUE, 0)}, {FileF(TRUE, 1000)}},
        r \in {{}, {FileR}}}

LocalFile(name, mtime) ==
    [path |-> [abs |-> TRUE, parts |-> << <<"s">>, name >>], mtime |-> mtime]

LocalUniverse ==
    {LocalFile(<<"f", ".", "g">>, m) : m \in {999, 1000, 1060, 1061}}
    \cup {LocalFile(<<"n", ".", "g">>, 1000), LocalFile(<<"r">>, 1061)}

\* process() hands _sync a set of paths: no path twice.
LocalSets ==
    {S \in SUBSET LocalUniverse :
        /\ Cardinality(S) <= MaxLocal
        /\ \A f, g \in S : f.path = g.path => f = g}

\* relative_to_path: the source directory, or its parent.
Bases == {[abs |-> TRUE, parts |-> << <<"s">> >>], [abs |-> TRUE, parts |-> <<>>]}

\* destination_path: "/u/a", "/u", "a" and "".
Destinations ==
    {[abs |-> TRUE, parts |-> << <<"u">>, <<"a">> >>],
     [abs |-> TRUE, parts |-> << <<"u">> >>],
     [abs |-> FALSE, parts |-> << <<"a">> >>],
     [abs |-> FALSE, parts |-> <<>>]}

\* UTC, two hours east of it, five hours west of it.
Offsets == {0, 7200, -18000}

InputsFrom(trees, locals, dests, bases, offsets) ==
    /\ tree \in trees
    /\ device = tree
    /\ local_files \in locals
    /\ relative_to_path \in bases
    /\ destination_path \in dests
    /\ utc_offset \in offsets
    /\ ignore_state \in BOOLEAN
    /\ execute \in BOOLEAN
    /\ excess_files = {}
    /\ missing_files = <<>>
    /\ todo_excess = {}
    /\ todo_missing = {}
    /\ calls = <<>>
    /\ report = <<>>

\* The inputs of the runs of _sync that are followed to their end: a tree
\* with a file in each of two folders, one with a file without an extension
\* and one with no file; local files that are stale, missing and without an
\* extension; an absolute and a relative destination.
SyncTrees == {{RootU, FolderA, FolderAB, FileX, FileF(TRUE, 1000)},
              {RootU, FolderA, FileR},
              {RootU, FolderA}}

SyncLocalSets ==
    {S \in LocalSets :
        S \subseteq {LocalFile(<<"f", ".", "g">>, 1061),
                     LocalFile(<<"n", ".", "g">>, 1000),
                     LocalFile(<<"r">>, 1061)}}

SyncDestinations ==
    {[abs |-> TRUE, parts |-> << <<"u">>, <<"a">> >>],
     [abs |-> FALSE, parts |-> << <<"a">> >>]}

\* No direct call was made and no FileNode was constructed by hand.
NoDirectUse ==
    /\ last_call = [op |-> "none", arg |-> <<>>, ret |-> <<>>]
    /\ file_nodes = <<>>

\* _sync called for one printer, outside process().
OneWorker ==
    /\ constructed = 1
    /\ printers = {"p1"}
    /\ pool_size = 1
    /\ main_pc = "none"
    /\ cur = "p1"
    /\ parked = <<>>
    /\ successes = {}

\* _sync is entered.
Init ==
    /\ InputsFrom(SyncTrees, SyncLocalSets, SyncDestinations, Bases, {0})
    /\ pc = "start"
    /\ printer_state = "unset"
    /\ OneWorker
    /\ NoDirectUse

Next == GetState \/ Plan \/ Prune \/ Upload \/ Reload

Spec == Init /\ [][Next]_vars

\* The planner alone: _sync has passed the guard.
PlanInit ==
    /\ InputsFrom(Trees, LocalSets, Destinations, Bases, Offsets)
    /\ pc = "plan"
    /\ printer_state \in IDLE_STATES
    /\ OneWorker
    /\ NoDirectUse

\* Rebuilt, were the root the only node of the new tree.
Rebuilt_RootOnly(dev) == {n \in dev : ~HasParent(n)}

\* The tree a new Storage builds from the device when every listing is
\* answered.
Rebuilt(dev) == Listed(dev, {})

\* The dry run has returned and link-sync is run once more: the plan of the
\* first run is kept for comparison, a new Storage is built from the device
\* and _sync comes to its planner again.
Rerun ==
    /\ pc = "reported"
    /\ DryRun(execute)
    /\ last_call.op = "none"
    /\ last_call' = [op |-> "_sync", arg |-> <<>>,
                     ret |-> [excess_files |-> excess_files,
                              missing_files |-> missing_files]]
    /\ tree' = Rebuilt(device)
    /\ excess_files' = {}
    /\ missing_files' = <<>>
    /\ pc' = "plan"
    /\ UNCHANGED <<device, inputs, printer_state, todo_excess, todo_missing, calls,
                   report, process_vars, file_nodes>>

PlanNext == Plan \/ Rerun

PlanSpec == PlanInit /\ [][PlanNext]_vars

-----------------------------------------------------------------------------
(* process(): from_config, the thread pool and the collected result *)

\* Largest cpu_count().
MaxPool == 2

\* The names of the configuration file, in the order of printer_list.items().
PrinterList == <<"p1", "p2">>

Printers == {PrinterList[i] : i \in 1..Len(PrinterList)}

worker_vars == <<tree, device, pc, printer_state, excess_files, missing_files,
                 todo_excess, todo_missing, calls, report>>

\* The state of a worker that has made no step: its printer's tree, the
\* files its device holds, and where it is.
Worker(t, dev, at) ==
    [tree |-> t, device |-> dev, pc |-> at, printer_state |-> "unset",
     excess_files |-> {}, missing_files |-> <<>>, todo_excess |-> {},
     todo_missing |-> {}, calls |-> <<>>, report |-> <<>>]

\* The state of the worker that is running.
Running ==
    [tree |-> tree, device |-> device, pc |-> pc, printer_state |-> printer_state,
     excess_files |-> excess_files, missing_files |-> missing_files,
     todo_excess |-> todo_excess, todo_missing |-> todo_missing,
     calls |-> calls, report |-> report]

\* Resume, were one Storage shared by the printers.
Resume_SharedStorage(w) == [w EXCEPT !.tree = tree]

\* What a worker thread finds when it runs again: its own locals and its own
\* printer, whose Storage no other printer has.
Resume(w) == w

Load(w) ==
    /\ tree' = w.tree
    /\ device' = w.device
    /\ pc' = w.pc
    /\ printer_state' = w.printer_state
    /\ excess_files' = w.excess_files
    /\ missing_files' = w.missing_files
    /\ todo_excess' = w.todo_excess
    /\ todo_missing' = w.todo_missing
    /\ calls' = w.calls
    /\ report' = w.report

WorkerState(d) == IF cur = d THEN Running ELSE parked[d]

WorkerPc(d) == WorkerState(d).pc

\* _sync has returned or raised.
Terminal == {"skipped", "reported", "done", "raised"}

\* _sync is under way.
Runnable == {"start", "plan", "prune", "upload", "reload"}

\* A request was made that never returns.
SomethingHung == \E d \in Printers : WorkerPc(d) = "hung"

\* The pool's threads that have taken a work item and not finished it.
ActiveThreads ==
    Cardinality({d \in Printers : WorkerPc(d) \in Runnable \cup {"hung"}})

\* all(successes), were it any(successes).
all_Any(S) == \E b \in S : b

\* all(successes)
all(S) == \A b \in S : b

\* PoolShutdown, were the futures not waited for.
PoolShutdown_NoWait == TRUE

\* Leaving the with block: shutdown(wait=True) returns when every submitted
\* work item has finished.
PoolShutdown == \A d \in printers : WorkerPc(d) \in Terminal

\* What the status request of _get_root_node can give: a dictionary with
\* payload["storage"]["path"], a dictionary without it, no dictionary (the
\* payload is None for a non-2xx answer and for a body that is no JSON), or
\* an exception of the request.
StatusResponses == {"dict", "dict without storage path", "no dict", "raise"}

\* What a listing request can give.
FilesResponses == {"dict", "no dict", "raise"}

\* _get_root_node: what it returns or raises.
get_root_node(status, files) ==
    IF status = "raise" THEN "RequestException"
    ELSE IF status = "no dict" THEN "StorageException"
    ELSE IF status = "dict without storage path" THEN "KeyError"
    ELSE IF files = "raise" THEN "RequestException"
    ELSE IF files = "no dict" THEN "StorageException"
    ELSE "FileNode"

\* Storage.__init__: _get_root_node(), then _build_storage(root_node), whose
\* listing requests are made with no try around them.
Storage__init__(status, files, build) ==
    IF get_root_node(status, files) # "FileNode" THEN get_root_node(status, files)
    ELSE IF build = "raise" THEN "RequestException"
    ELSE "Storage"

\* from_config constructs the next Printer: Storage.__init__ asks for the
\* status and the root listing and builds the tree.  The list comprehension
\* ends with the first exception.
Construct ==
    /\ main_pc = "from_config"
    /\ constructed < Len(PrinterList)
    /\ LET name == PrinterList[constructed + 1]
           dev  == parked[name].device
       IN  \E status \in StatusResponses, files \in FilesResponses,
              build \in {"ok", "raise"}, hangs \in BOOLEAN :
              LET outcome == IF hangs THEN "hang"
                             ELSE Storage__init__(status, files, build)
              IN
              /\ outcome # "Storage" => MaxFailures > 0
              /\ IF outcome = "Storage"
                 THEN \E silent \in SUBSET {n \in dev : is_dir(n)} :
                         /\ Cardinality(silent) <= MaxFailures
                         /\ silent \subseteq Listed(dev, silent)
                         /\ parked' = [parked EXCEPT
                                          ![name] = Worker(Listed(dev, silent), dev, "built")]
                         /\ constructed' = constructed + 1
                         /\ main_pc' = main_pc
                 ELSE /\ parked' = [parked EXCEPT
                                       ![name].pc = IF outcome = "hang" THEN "hung"
                                                    ELSE "unavailable"]
                      /\ main_pc' = IF outcome = "hang" THEN "hung" ELSE "raised"
                      /\ UNCHANGED constructed
    /\ UNCHANGED <<api_vars, worker_vars, inputs, printers, pool_size, cur, successes>>

\* The with block: every printer left by the filters is submitted.
Submit ==
    /\ main_pc = "from_config"
    /\ constructed = Len(PrinterList)
    /\ parked' = [d \in Printers |->
                    IF d \in printers THEN [parked[d] EXCEPT !.pc = "queued"]
                    ELSE parked[d]]
    /\ main_pc' = "pool"
    /\ UNCHANGED <<api_vars, worker_vars, inputs, constructed, printers, pool_size, cur, successes>>

\* A thread of the pool takes the work item of printer d.
Start(d) ==
    /\ main_pc = "pool"
    /\ d # cur
    /\ parked[d].pc = "queued"
    /\ ActiveThreads < pool_size
    /\ parked' = [parked EXCEPT ![d].pc = "start"]
    /\ UNCHANGED <<api_vars, worker_vars, inputs, constructed, printers, pool_size, main_pc,
                   cur, successes>>

\* The interpreter lets the thread of printer e run.
Switch(e) ==
    /\ main_pc = "pool"
    /\ e # cur
    /\ parked[e].pc \in Runnable
    /\ cur' = e
    /\ parked' = [d \in Printers |->
                    IF d = e THEN Worker({}, {}, "running")
                    ELSE IF d = cur THEN Running
                    ELSE parked[d]]
    /\ Load(Resume(parked[e]))
    /\ UNCHANGED <<api_vars, inputs, constructed, printers, pool_size, main_pc, successes>>

\* The request the running worker makes next never returns.
Hang ==
    /\ main_pc = "pool"
    /\ cur \in Printers
    /\ pc \in {"start", "prune", "upload", "reload"}
    /\ MaxFailures > 0
    /\ ~SomethingHung
    /\ pc' = "hung"
    /\ UNCHANGED <<tree, device, inputs, printer_state, excess_files, missing_files,
                   todo_excess, todo_missing, calls, report, process_vars, api_vars>>

\* What the loop over the futures adds to successes for printer d: True
\* when future.result() returns, False when it raises.
Recorded(d) == WorkerPc(d) # "raised"

\* The with block is left and the futures' results are collected.
Join ==
    /\ main_pc = "pool"
    /\ PoolShutdown
    /\ successes' = {Recorded(d) : d \in printers}
    /\ main_pc' = "returned"
    /\ UNCHANGED <<api_vars, worker_vars, inputs, constructed, printers, pool_size, cur, parked>>

\* The files the device of a printer holds.
DeviceOf(d) ==
    IF d = "p1" THEN {RootU, FolderA} ELSE {RootU, FolderA, FileF(TRUE, 1000)}

\* process() is entered: one new local file for the destination "/u/a", any
\* filter of the printers, any size of the pool.
ProcInit ==
    /\ local_files = {LocalFile(<<"n", ".", "g">>, 1000)}
    /\ relative_to_path = [abs |-> TRUE, parts |-> << <<"s">> >>]
    /\ destination_path = [abs |-> TRUE, parts |-> << <<"u">>, <<"a">> >>]
    /\ utc_offset = 0
    /\ ignore_state = FALSE
    /\ execute \in BOOLEAN
    /\ tree = {} /\ device = {}
    /\ pc = "idle" /\ printer_state = "unset"
    /\ excess_files = {} /\ missing_files = <<>>
    /\ todo_excess = {} /\ todo_missing = {}
    /\ calls = <<>> /\ report = <<>>
    /\ constructed = 0
    /\ printers \in SUBSET Printers
    /\ pool_size \in 1..MaxPool
    /\ main_pc = "from_config"
    /\ cur = "none"
    /\ parked = [d \in Printers |-> Worker({}, DeviceOf(d), "unbuilt")]
    /\ successes = {}
    /\ NoDirectUse

ProcNext ==
    \/ Construct \/ Submit \/ Join
    \/ \E d \in Printers : Start(d)
    \/ \E e \in Printers : Switch(e)
    \/ GetState \/ Plan \/ Prune \/ Upload \/ Reload
    \/ Hang

ProcSpec == ProcInit /\ [][ProcNext]_vars

\* The scheduling of process(): the main thread goes on, a free thread of
\* the pool takes a queued work item, and every thread that can run is let
\* run again and again.  No request is bound to return: Hang is not forced.
ProcFairness ==
    /\ WF_vars(Construct) /\ WF_vars(Submit) /\ WF_vars(Join)
    /\ \A d \in Printers :
          /\ WF_vars(Start(d))
          /\ SF_vars(Switch(d))
          /\ SF_vars(cur = d /\ Next)

ProcFairSpec == ProcSpec /\ ProcFairness

-----------------------------------------------------------------------------
(* Storage used directly: the constructor and the lookups *)

\* A str argument and a Path argument.
Str(s) == [is_path |-> FALSE, value |-> s]

PathArg(p) == [is_path |-> TRUE, value |-> p]

\* AsStr, were a str argument parsed and printed as a Path is.
AsStr_Normalised(arg) ==
    IF arg.is_path THEN PathStr(arg.value) ELSE PathStr(ParsePath(arg.value))

\* if isinstance(path, Path): path = str(path)
AsStr(arg) == IF arg.is_path THEN PathStr(arg.value) ELSE arg.value

\* if not isinstance(remote_path, Path): remote_path = Path(remote_path)
AsPath(arg) == IF arg.is_path THEN arg.value ELSE ParsePath(arg.value)

\* The strings the lookups are called with: the display path and the short
\* path of every node, each also with a last component "x" added, with a
\* component "b/c" added and with a trailing separator, and paths of which
\* no node, or only the root, is an ancestor.
LookupStrings(t) ==
    LET own == {full_display_path(t, n) : n \in t} \cup {full_short_path(t, n) : n \in t}
    IN  own
        \cup {s \o <<"/", "x">> : s \in own}
        \cup {s \o <<"/">> : s \in own}
        \cup {full_display_path(t, n) \o <<"/", "b", "/", "c">> : n \in t}
        \cup {<<"/", "z", "z", "/", "x">>, <<"/", "u", "/", "z", "z", "/", "x">>,
              <<"a", "/", "x">>, <<"u", "/", "a">>, <<"/", "u", "/", "/", "a">>,
              <<"/">>, <<>>}

LookupArgs(t) ==
    {Str(s) : s \in LookupStrings(t)} \cup {PathArg(ParsePath(s)) : s \in LookupStrings(t)}

\* Storage(...) is called for the device.
NewStorage ==
    /\ \E status \in StatusResponses, files \in FilesResponses,
          build \in {"ok", "raise"} :
          /\ Cardinality({r \in {<<1, status>>, <<2, files>>, <<3, build>>} :
                            r[2] \notin {"dict", "ok"}}) <= MaxFailures
          /\ last_call' =
                [op |-> "Storage",
                 arg |-> [status |-> status, files |-> files, build |-> build],
                 ret |-> [outcome |-> Storage__init__(status, files, build),
                          tree |-> IF Storage__init__(status, files, build) = "Storage"
                                   THEN Listed(device, {}) ELSE {}]]
    /\ UNCHANGED <<worker_vars, inputs, process_vars, file_nodes>>

\* storage.get_shorter_path(arg)
GetShorterPath ==
    /\ \E arg \in LookupArgs(tree) :
          last_call' = [op |-> "get_shorter_path", arg |-> arg,
                        ret |-> get_shorter_path(tree, AsPath(arg))]
    /\ UNCHANGED <<worker_vars, inputs, process_vars, file_nodes>>

\* storage.get_node_for_display_path(arg)
GetNodeForDisplayPath ==
    /\ \E arg \in LookupArgs(tree) :
          last_call' = [op |-> "get_node_for_display_path", arg |-> arg,
                        ret |-> get_node_for_display_path(tree, AsStr(arg))]
    /\ UNCHANGED <<worker_vars, inputs, process_vars, file_nodes>>

\* storage.get_node_for_short_path(arg)
GetNodeForShortPath ==
    /\ \E arg \in LookupArgs(tree) :
          last_call' = [op |-> "get_node_for_short_path", arg |-> arg,
                        ret |-> get_node_for_short_path(tree, AsStr(arg))]
    /\ UNCHANGED <<worker_vars, inputs, process_vars, file_nodes>>

\* m_datetime_or_None, were the timestamp not tested.
m_datetime_or_None_Untested(n) == {m_datetime(n)}

\* The property m_datetime: a datetime, or None (the empty set) when
\* m_timestamp is falsy.
m_datetime_or_None(n) == IF HasDatetime(n) THEN {m_datetime(n)} ELSE {}

\* value = node.m_datetime, for a node of the tree
ReadMDatetime ==
    /\ \E n \in tree :
          last_call' = [op |-> "m_datetime", arg |-> n, ret |-> m_datetime_or_None(n)]
    /\ UNCHANGED <<worker_vars, inputs, process_vars, file_nodes>>

\* child_nodes, were it all the nodes below the node.
child_nodes_AllBelow(t, n) == {m \in t : IsAncestor(n, m)}

\* node.child_nodes: the nodes whose parent_node is the node.
child_nodes(t, n) == {m \in t : Len(m.path) = Len(n.path) + 1 /\ IsAncestor(n, m)}

RECURSIVE Reversed(_)
Reversed(s) == IF s = <<>> THEN <<>> ELSE Append(Reversed(Tail(s)), Head(s))

RECURSIVE gen_nodes_from(_, _, _)
RECURSIVE YieldFromEach(_, _, _)
\* gen_nodes(file_node): yield file_node, then yield from gen_nodes(child)
\* for each child in turn.  The set child_nodes is iterated in one order or
\* in the reverse of it.
gen_nodes_from(t, file_node, backwards) ==
    LET order == SeqOf(child_nodes(t, file_node))
    IN  <<file_node>>
        \o YieldFromEach(t, IF backwards THEN Reversed(order) ELSE order, backwards)

YieldFromEach(t, children, backwards) ==
    IF children = <<>> THEN <<>>
    ELSE gen_nodes_from(t, Head(children), backwards)
         \o YieldFromEach(t, Tail(children), backwards)

\* list(storage.gen_nodes(file_node)); file_node None (the empty set) stands
\* for root_node.
GenNodes ==
    /\ \E start \in {{}} \cup {{n} : n \in tree}, backwards \in BOOLEAN :
          LET file_node == IF start = {} THEN RootNode(tree)
                           ELSE CHOOSE n \in start : TRUE
          IN  last_call' = [op |-> "gen_nodes", arg |-> start,
                            ret |-> gen_nodes_from(tree, file_node, backwards)]
    /\ UNCHANGED <<worker_vars, inputs, process_vars, file_nodes>>

\* A Storage whose tree was built from the device, with no call made yet.
LookupInit ==
    /\ tree \in Trees
    /\ device = tree
    /\ local_files = {}
    /\ relative_to_path = [abs |-> TRUE, parts |-> << <<"s">> >>]
    /\ destination_path = [abs |-> TRUE, parts |-> << <<"u">>, <<"a">> >>]
    /\ utc_offset = 0
    /\ ignore_state = FALSE
    /\ execute = FALSE
    /\ pc = "idle" /\ printer_state = "unset"
    /\ excess_files = {} /\ missing_files = <<>>
    /\ todo_excess = {} /\ todo_missing = {}
    /\ calls = <<>> /\ report = <<>>
    /\ OneWorker
    /\ NoDirectUse

LookupNext ==
    \/ NewStorage \/ GetShorterPath \/ GetNodeForDisplayPath \/ GetNodeForShortPath
    \/ ReadMDatetime
    \/ GenNodes

LookupSpec == LookupInit /\ [][LookupNext]_vars

-----------------------------------------------------------------------------
(* FileNode objects used directly.  An object is a record                  *)
(*   [name, display_name, parent_node, short, display]                     *)
(* where parent_node is the identity of another object or "None", and      *)
(* short and display are what functools.cached_property has stored for     *)
(* full_short_path and full_display_path: empty until the first read, the  *)
(* value of the first read from then on.                                   *)

NodeIds == {"root", "dir", "file"}

FileNode(name, display_name, parent_node) ==
    [name |-> name, display_name |-> display_name, parent_node |-> parent_node,
     short |-> {}, display |-> {}]

RECURSIVE FileNode_full_short_path(_, _)
\* Reading node.full_short_path: the stored value if there is one, else the
\* value computed from the parent's full_short_path, read the same way, and
\* stored.  The result is the value and the objects after the read.
FileNode_full_short_path(objs, n) ==
    IF objs[n].short # {}
    THEN [value |-> CHOOSE v \in objs[n].short : TRUE, objs |-> objs]
    ELSE IF objs[n].parent_node # "None"
    THEN LET parent == FileNode_full_short_path(objs, objs[n].parent_node)
             value  == parent.value \o <<"/">> \o objs[n].name
         IN  [value |-> value, objs |-> [parent.objs EXCEPT ![n].short = {value}]]
    ELSE LET value == <<"/">> \o objs[n].name
         IN  [value |-> value, objs |-> [objs EXCEPT ![n].short = {value}]]

\* display_name or name, of an object.
FileNode_DisplayOrName(o) == IF o.display_name # <<>> THEN o.display_name ELSE o.name

RECURSIVE FileNode_full_display_path(_, _)
\* Reading node.full_display_path.
FileNode_full_display_path(objs, n) ==
    IF objs[n].display # {}
    THEN [value |-> CHOOSE v \in objs[n].display : TRUE, objs |-> objs]
    ELSE IF objs[n].parent_node # "None"
    THEN LET parent == FileNode_full_display_path(objs, objs[n].parent_node)
             value  == parent.value \o <<"/">> \o FileNode_DisplayOrName(objs[n])
         IN  [value |-> value, objs |-> [parent.objs EXCEPT ![n].display = {value}]]
    ELSE LET value == <<"/">> \o FileNode_DisplayOrName(objs[n])
         IN  [value |-> value, objs |-> [objs EXCEPT ![n].display = {value}]]

\* value = node.full_short_path
ReadShortPath(n) ==
    /\ file_nodes' = FileNode_full_short_path(file_nodes, n).objs
    /\ last_call' = [op |-> "full_short_path", arg |-> n,
                     ret |-> FileNode_full_short_path(file_nodes, n).value]
    /\ UNCHANGED <<worker_vars, inputs, process_vars>>

\* value = node.full_display_path
ReadDisplayPath(n) ==
    /\ file_nodes' = FileNode_full_display_path(file_nodes, n).objs
    /\ last_call' = [op |-> "full_display_path", arg |-> n,
                     ret |-> FileNode_full_display_path(file_nodes, n).value]
    /\ UNCHANGED <<worker_vars, inputs, process_vars>>

\* node.name = value
SetName(n, value) ==
    /\ file_nodes[n].name # value
    /\ file_nodes' = [file_nodes EXCEPT ![n].name = value]
    /\ last_call' = [op |-> "name =", arg |-> n, ret |-> value]
    /\ UNCHANGED <<worker_vars, inputs, process_vars>>

\* node.display_name = value
SetDisplayName(n, value) ==
    /\ file_nodes[n].display_name # value
    /\ file_nodes' = [file_nodes EXCEPT ![n].display_name = value]
    /\ last_call' = [op |-> "display_name =", arg |-> n, ret |-> value]
    /\ UNCHANGED <<worker_vars, inputs, process_vars>>

\* node.parent_node = parent, for the file, which is no one's parent.
SetParent(parent) ==
    /\ parent \in {"root", "dir"}
    /\ file_nodes["file"].parent_node # parent
    /\ file_nodes' = [file_nodes EXCEPT !["file"].parent_node = parent]
    /\ last_call' = [op |-> "parent_node =", arg |-> "file", ret |-> parent]
    /\ UNCHANGED <<worker_vars, inputs, process_vars>>

\* Three nodes made by hand, as in the tests: the root "USB" shown as "usb",
\* a folder in it, and a file without a display name in the folder.
NodeInit ==
    /\ file_nodes =
          [n \in NodeIds |->
              CASE n = "root" -> FileNode(<<"U", "S", "B">>, <<"u", "s", "b">>, "None")
                [] n = "dir"  -> FileNode(<<"A">>, <<"a">>, "root")
                [] n = "file" -> FileNode(<<"F", ".", "G">>, <<>>, "dir")]
    /\ last_call = [op |-> "none", arg |-> <<>>, ret |-> <<>>]
    /\ tree = {} /\ device = {}
    /\ local_files = {}
    /\ relative_to_path = [abs |-> TRUE, parts |-> << <<"s">> >>]
    /\ destination_path = [abs |-> TRUE, parts |-> << <<"u">>, <<"a">> >>]
    /\ utc_offset = 0
    /\ ignore_state = FALSE
    /\ execute = FALSE
    /\ pc = "idle" /\ printer_state = "unset"
    /\ excess_files = {} /\ missing_files = <<>>
    /\ todo_excess = {} /\ todo_missing = {}
    /\ calls = <<>> /\ report = <<>>
    /\ OneWorker

NodeNext ==
    \/ \E n \in NodeIds : ReadShortPath(n)
    \/ \E n \in NodeIds : ReadDisplayPath(n)
    \/ \E n \in NodeIds : SetName(n, <<"B">>)
    \/ \E n \in NodeIds : SetDisplayName(n, <<"b">>)
    \/ \E parent \in NodeIds : SetParent(parent)

NodeSpec == NodeInit /\ [][NodeNext]_vars

-----------------------------------------------------------------------------
(* The planner's contract, checked under PlanSpec *)

\* _sync has computed its plan.
Planned ==
    \/ pc \in {"reported", "prune", "upload", "reload", "done"}
    \/ pc = "raised" /\ printer_state # "unset"

\* The display paths of the returned excess set.
ExcessStrings == {PathStr(p) : p \in excess_files}

\* The nodes at the remote path get_excess_files gives the local file f.
ExcessTargets(f) ==
    {n \in tree : full_display_path(tree, n) =
                    PathStr(PathJoin(destination_path,
                                     RelativeTo(f.path, relative_to_path)))}

\* The nodes at the remote path gen_missing_or_stale_files gives f.
UploadTargets(f) ==
    {n \in tree : full_display_path(tree, n) =
                    PathStr(MissingRemotePath(tree, destination_path,
                                              relative_to_path, f))}

\* The places of missing_files that were yielded for the local file f.
YieldedFor(f) ==
    {i \in 1..Len(missing_files) : missing_files[i].local_path = f.path}

\* C1: get_excess_files never returns the display path of a node that a
\* local file maps to (destination joined with the file's path relative to
\* relative_to).
C1_NoLocalTargetInExcess ==
    Planned =>
        \A f \in local_files : \A n \in ExcessTargets(f) :
            full_display_path(tree, n) \notin ExcessStrings

\* C1 witness: a local file maps to a file below the destination, and
\* another file there is returned as excess.
C1_Witness ==
    /\ Planned
    /\ excess_files # {}
    /\ \E f \in local_files : \E n \in ExcessTargets(f) :
          /\ ~is_dir(n)
          /\ \E d \in tree : /\ full_display_path(tree, d) = PathStr(destination_path)
                             /\ IsAncestor(d, n)

\* C2: when the destination resolves to a node D, get_excess_files returns
\* exactly the display paths of the non-folder nodes that are descendants of
\* D by parent chain and that no local file maps to.
C2_ExcessIsDestinationSubtree ==
    Planned =>
        \A d \in tree :
            full_display_path(tree, d) = PathStr(destination_path) =>
                ExcessStrings =
                    {full_display_path(tree, n) :
                        n \in {m \in tree :
                                 /\ ~is_dir(m)
                                 /\ IsAncestor(d, m)
                                 /\ \A f \in local_files : m \notin ExcessTargets(f)}}

\* C5: every local file is exactly one of missing (no node at its target;
\* yielded once, not stale), stale (node present; yielded once, stale) or
\* fresh (node present; not yielded), and every yielded object is that of a
\* local file and its target.
C5_MissingStaleFreshPartition ==
    Planned =>
        /\ \A f \in local_files :
              IF UploadTargets(f) = {}
              THEN /\ Cardinality(YieldedFor(f)) = 1
                   /\ \A i \in YieldedFor(f) : ~missing_files[i].is_stale
              ELSE /\ Cardinality(YieldedFor(f)) <= 1
                   /\ \A i \in YieldedFor(f) : missing_files[i].is_stale
        /\ \A i \in 1..Len(missing_files) :
              \E f \in local_files :
                 /\ missing_files[i].local_path = f.path
                 /\ missing_files[i].remote_path =
                       MissingRemotePath(tree, destination_path, relative_to_path, f)

\* C5 witness: of two local files one was yielded as missing and the other
\* as stale.
C5_Witness ==
    /\ Planned
    /\ \E f, g \in local_files :
          /\ UploadTargets(f) = {} /\ YieldedFor(f) # {}
          /\ UploadTargets(g) # {} /\ YieldedFor(g) # {}

\* C6: a local file whose target node has a timestamp is yielded as stale if
\* and only if its modification time exceeds the node's by strictly more
\* than 60 seconds.
C6_StaleIffMoreThan60s ==
    Planned =>
        \A f \in local_files : \A n \in UploadTargets(f) :
            (n.has_ts /\ n.m_timestamp # 0) =>
                ((\E i \in YieldedFor(f) : missing_files[i].is_stale)
                    <=> f.mtime - n.m_timestamp > 60)

\* C7: a local file whose target node has no timestamp (None or 0) is never
\* yielded.
C7_NoTimestampNeverYielded ==
    Planned =>
        \A f \in local_files : \A n \in UploadTargets(f) :
            (~n.has_ts \/ n.m_timestamp = 0) => YieldedFor(f) = {}

\* C7 witness: the target node has timestamp 0 and the local file is newer
\* than 60 seconds past the epoch, in local time too.
C7_Witness ==
    /\ Planned
    /\ \E f \in local_files : \E n \in UploadTargets(f) :
          /\ n.has_ts /\ n.m_timestamp = 0
          /\ f.mtime + utc_offset > 60

-----------------------------------------------------------------------------
(* The worker's contract, checked under Spec *)

\* The places of the log with a call of the given kind for the given item.
CallsOf(op, item) ==
    {i \in 1..Len(calls) : calls[i].op = op /\ calls[i].item = item}

\* C3: _sync goes on to plan if and only if the state the status check
\* returned is FINISHED, IDLE or READY or ignore_state is set; otherwise it
\* ends as skipped, having made no remote call but the one status request.
C3_GuardSkipsBusyPrinter ==
    printer_state # "unset" =>
        /\ pc = "skipped" <=>
              ~(printer_state \in {"FINISHED", "IDLE", "READY"} \/ ignore_state)
        /\ pc = "skipped" =>
              /\ Len(calls) = 1 /\ calls[1].op = "STATUS"
              /\ tree = device
              /\ report = <<>>

\* C3 witness: a printing printer was skipped in execute mode, with local
\* files to sync.
C3_Witness ==
    /\ pc = "skipped" /\ printer_state = "PRINTING"
    /\ execute /\ local_files # {}

\* C4: when execute is false no step of _sync makes a delete, create-folder,
\* upload or listing request, and the device's files and the tree stay as
\* they are.
C4_DryRunChangesNothing ==
    [][~execute =>
          /\ tree' = tree
          /\ device' = device
          /\ \A i \in 1..Len(calls') : calls'[i].op = "STATUS"]_vars

\* C4 witness: a dry run reported a plan with files to delete and to upload.
C4_Witness ==
    /\ pc = "reported" /\ ~execute
    /\ excess_files # {} /\ missing_files # <<>>

\* C8: every delete request for an excess file is made before the first
\* request of the upload loop, and no request of the upload loop is made
\* while an excess file is still to be visited.
C8_DeletesBeforeUploads ==
    /\ \A i, j \in 1..Len(calls) :
          (i < j /\ calls[j].op = "DELETE" /\ calls[j].item \in ExcessStrings) =>
              /\ calls[i].op \notin {"UPLOAD", "MKDIR"}
              /\ calls[i].op = "DELETE" => calls[i].item \in ExcessStrings
    /\ (\E i \in 1..Len(calls) : calls[i].op \in {"UPLOAD", "MKDIR"}) =>
          todo_excess = {}

\* C8 witness: a run with an excess delete, a stale pre-delete and an upload.
C8_Witness ==
    /\ pc = "done"
    /\ \E i, j, k \in 1..Len(calls) :
          /\ calls[i].op = "DELETE" /\ calls[i].item \in ExcessStrings
          /\ calls[j].op = "DELETE" /\ calls[j].item \notin ExcessStrings
          /\ calls[k].op = "UPLOAD"

\* C9: for every stale target the delete request is made immediately before
\* the upload request for the same target, whatever the delete's outcome;
\* for every missing target an upload is made and no delete.
C9_StaleDeleteThenUpload ==
    \A k \in 1..Len(missing_files) :
        (execute /\ k \notin todo_missing /\ pc \in {"upload", "reload", "done"}) =>
            LET item == PathStr(missing_files[k].remote_path)
            IN  /\ CallsOf("UPLOAD", item) # {}
                /\ IF missing_files[k].is_stale
                   THEN \A i \in CallsOf("UPLOAD", item) :
                           i > 1 /\ (i - 1) \in CallsOf("DELETE", item)
                   ELSE CallsOf("DELETE", item) = {}

\* C10: in execute mode every excess path visited got exactly one delete
\* attempt and every missing or stale target visited exactly one upload
\* attempt, none is skipped or retried, and no failure ends the loops early.
C10_OneAttemptPerItem ==
    (execute /\ Planned) =>
        /\ \A p \in excess_files :
              Cardinality(CallsOf("DELETE", PathStr(p))) =
                 IF p \in todo_excess THEN 0 ELSE 1
        /\ \A k \in 1..Len(missing_files) :
              Cardinality(CallsOf("UPLOAD", PathStr(missing_files[k].remote_path))) =
                 IF k \in todo_missing THEN 0 ELSE 1
        /\ pc \in {"reload", "done", "raised"} =>
              todo_excess = {} /\ todo_missing = {}

\* C10 witness: a run ended after a delete, create-folder or upload request
\* failed and a request for another item was made after it.
C10_Witness ==
    /\ pc = "done"
    /\ \E i, j \in 1..Len(calls) :
          /\ i < j
          /\ calls[i].op \in {"DELETE", "MKDIR", "UPLOAD"} /\ calls[i].result # "ok"
          /\ calls[j].op \in {"DELETE", "UPLOAD"} /\ calls[j].item # calls[i].item

\* The outcome _sync printed for the i-th visited item, against the call of
\* delete_file or upload_file made for it.
ReportedCalls(i) ==
    CallsOf(IF report[i].what = "delete" THEN "DELETE" ELSE "UPLOAD", report[i].item)

\* C11: an item is reported as done (delete_file or upload_file returned
\* True) only when the transport call for it succeeded, and as failed
\* whenever that call failed, by a non-success answer or by raising.
C11_ReportedOutcomeMatchesTransport ==
    \A i \in 1..Len(report) :
        report[i].ret \in {"True", "False"} =>
            /\ ReportedCalls(i) # {}
            /\ \A j \in ReportedCalls(i) :
                  (report[i].ret = "True") <=> (calls[j].result = "ok")

\* C12: no exception raised by the status request or by a delete,
\* create-folder or upload request leaves _sync.
C12_TransportExceptionsNeverPropagate ==
    pc = "raised" =>
        calls[Len(calls)].op \notin {"STATUS", "DELETE", "MKDIR", "UPLOAD"}

\* The listing requests of reload() for the storage root.
RootListings ==
    {i \in 1..Len(calls) :
        /\ calls[i].op = "LIST"
        /\ calls[i].path = full_short_path(tree, RootNode(tree))}

\* The delete, create-folder and upload requests made so far, in order.
MutatingCalls ==
    LET at == {i \in 1..Len(calls) : calls[i].op \in {"DELETE", "MKDIR", "UPLOAD"}}
    IN  [k \in 1..Cardinality(at) |->
            calls[CHOOSE i \in at : Cardinality({j \in at : j <= i}) = k].op]

\* The destination is a folder of the tree with nothing in it, and the one
\* local file is new to it.
OneNewFileEmptyDestination ==
    /\ Cardinality(local_files) = 1
    /\ Len(missing_files) = 1 /\ ~missing_files[1].is_stale
    /\ excess_files = {}
    /\ \E d \in tree :
          /\ is_dir(d)
          /\ full_display_path(tree, d) =
                PathStr(PathJoin(ParsePath(full_display_path(tree, RootNode(tree))),
                                 destination_path))
          /\ \A n \in tree : ~IsAncestor(d, n)

\* The one local file has an extension and lies in the source directory
\* itself, so that its target lies in the destination folder itself.
NewFileDirectlyInDestination ==
    \A f \in local_files :
        /\ HasSuffix(f.path)
        /\ Len(RelativeTo(f.path, relative_to_path).parts) = 1

\* reload() is called once in an execute run that got past the guard, after
\* every delete, create-folder and upload request, whatever their outcomes,
\* and not at all in a skipped or dry run.
ReloadOnceAfterFileOperations ==
    /\ (pc \in {"start", "plan", "skipped", "reported", "prune", "upload", "reload"}
          \/ ~execute \/ ~Planned) => \A i \in 1..Len(calls) : calls[i].op # "LIST"
    /\ (execute /\ Planned /\ pc \in {"done", "raised"}) =>
          /\ Cardinality(RootListings) = 1
          /\ todo_excess = {} /\ todo_missing = {}
    /\ \A i, j \in 1..Len(calls) :
          (i < j /\ calls[i].op = "LIST") => calls[j].op = "LIST"

C15_ReloadFailureIsNotSyncFailure ==
    (\E i \in 1..Len(calls) : calls[i].op = "LIST" /\ calls[i].result # "ok") =>
        pc = "done"

\* C20: a status payload with a missing or unknown state string, or a failed
\* status request, yields no state, and with ignore_state false such a
\* printer is skipped with no request made but the status request.
C20_UnknownStateIsSkipped ==
    /\ \A r \in [kind : {"ok", "error"}, state : {"<missing>", "<nodict>", "ATTENTION"}] :
          get_state(r) = "None"
    /\ (pc # "start" /\ (printer_state = "None" \/ calls[1].result # "ok")) =>
          /\ printer_state = "None"
          /\ ~ignore_state =>
                /\ pc = "skipped"
                /\ Len(calls) = 1 /\ report = <<>> /\ tree = device

-----------------------------------------------------------------------------
(* The contract of process(), checked under ProcSpec and ProcFairSpec *)

\* C13: when the construction of one printer fails, the other printers left
\* by the filters are still constructed and synced: process() does not end
\* before their workers have.
C13_ConstructionFailureIsPerDevice ==
    (main_pc \in {"returned", "raised"}) =>
        \A d \in printers :
            WorkerPc(d) # "unavailable" => WorkerPc(d) \in Terminal

\* C16: process() returns True exactly when no submitted worker raised; a
\* worker that raised is recorded as False, one that returned as True, be it
\* with failed deletes or uploads.
C16_ResultIsAllWorkersCompleted ==
    main_pc = "returned" =>
        /\ all(successes) <=> \A d \in printers : WorkerPc(d) # "raised"
        /\ \A d \in printers :
              /\ WorkerPc(d) = "raised" => FALSE \in successes
              /\ WorkerPc(d) \in {"skipped", "reported", "done"} => TRUE \in successes

\* C16 witness: process() has returned False; one worker raised, the other
\* ran to its end with a failed upload.
C16_Witness ==
    /\ main_pc = "returned" /\ ~all(successes)
    /\ \E d, e \in printers :
          /\ WorkerPc(d) = "raised"
          /\ WorkerPc(e) = "done"
          /\ \E i \in 1..Len(WorkerState(e).calls) :
                /\ WorkerState(e).calls[i].op = "UPLOAD"
                /\ WorkerState(e).calls[i].result # "ok"

\* C17: when process() has its result, every submitted worker has returned
\* or raised; none is queued or under way.
C17_ResultAfterAllWorkers ==
    main_pc = "returned" => \A d \in printers : WorkerPc(d) \in Terminal

\* C17 witness: process() has returned after two workers that shared one
\* thread of the pool.
C17_Witness ==
    /\ main_pc = "returned" /\ pool_size = 1
    /\ printers = Printers
    /\ \A d \in printers : WorkerPc(d) = "done"

\* C18: once a request to one printer never returns, the worker of every
\* other printer left by the filters still reaches its end.
C18_HangStallsOnlyThatDevice ==
    \A d \in Printers :
        []((SomethingHung /\ d \in printers /\ WorkerPc(d) # "hung")
              => <>(WorkerPc(d) \in Terminal))

\* C19: a step changes the worker state of a printer (its tree, its calls,
\* its reported outcomes) only if it is a step of that printer's own running
\* worker, and then it is a step _sync can take for that printer alone; the
\* local file set and the other inputs never change.
C19_WorkersDoNotInterfere ==
    [][/\ inputs' = inputs
       /\ \A d \in Printers :
             WorkerState(d)' # WorkerState(d) =>
                \/ cur # d /\ WorkerPc(d) \in {"unbuilt", "built", "queued"}
                \/ cur = d /\ cur' = d /\ (Next \/ Hang)]_vars

\* C19 witness: the worker of p2 has run from its start to its end, with
\* requests made, while the worker of p1 was under way in its upload loop.
C19_Witness ==
    /\ cur = "p2" /\ pc = "done" /\ calls # <<>>
    /\ parked["p1"].pc = "upload" /\ parked["p1"].calls # <<>>
    /\ parked["p1"].tree # tree

\* C21: the result process() records for a printer skipped by the busy guard
\* differs from the result it records for a printer that was synced with
\* every request answered.
C21_SkippedIsDistinctOutcome ==
    main_pc = "returned" =>
        \A d, e \in printers :
            (/\ WorkerPc(d) = "skipped"
             /\ WorkerPc(e) = "done"
             /\ \A i \in 1..Len(WorkerState(e).calls) :
                    WorkerState(e).calls[i].result = "ok")
            => Recorded(d) # Recorded(e)

\* C23: a destination that is not absolute is looked up under the tree root
\* (the root's display path joined with the destination; the root itself
\* for the empty destination), as gen_missing_or_stale_files maps its
\* targets: every file below that node that no local file maps to is
\* returned as excess.
C23_RelativeDestinationUnderRoot ==
    (Planned /\ ~destination_path.abs) =>
        \A d \in tree :
            full_display_path(tree, d) =
                PathStr(PathJoin(ParsePath(full_display_path(tree, RootNode(tree))),
                                 destination_path))
            => \A n \in tree :
                  (/\ ~is_dir(n)
                   /\ IsAncestor(d, n)
                   /\ \A f \in local_files : n \notin UploadTargets(f))
                  => full_display_path(tree, n) \in ExcessStrings

\* C30: a create-folder request that failed, be it answered with a
\* non-success status or raised, makes create_remote_folder return False;
\* it is never raised to the caller.
C30_FailedCreateFolderReturnsFalse ==
    \A i \in 1..Len(calls) :
        (calls[i].op = "MKDIR" /\ calls[i].result # "ok")
        => create_remote_folder_returns(calls[i].result) = "False"

\* The tree is the one the plan was computed from, and no node of it has
\* the display path get_excess_files looks the destination up by.
DestinationUnresolved ==
    /\ pc \in {"reported", "prune", "upload", "reload"}
    /\ \A n \in tree : full_display_path(tree, n) # DestNodePath(tree, destination_path)

\* C22: when the destination node is not found in the tree, the excess set
\* is empty and the run makes no delete request for an excess file.
C22_UnknownDestinationNoDeletes ==
    DestinationUnresolved =>
        /\ excess_files = {}
        /\ \A i \in 1..Len(calls) :
              ~(calls[i].op = "DELETE" /\ calls[i].phase = "prune")

\* C22 witness: an execute run against a destination that is not found, on
\* a device that holds a file, has made its uploads.
C22_Witness ==
    /\ DestinationUnresolved
    /\ execute /\ pc = "reload"
    /\ \E n \in tree : ~is_dir(n)
    /\ \E i \in 1..Len(calls) : calls[i].op = "UPLOAD"

\* The second dry run has computed its plan.
PlannedAgain == pc = "reported" /\ last_call.op = "_sync"

-----------------------------------------------------------------------------
(* The contract of Storage, checked under LookupSpec *)

\* The numbers of leading components of the path p that name a node of the
\* tree by its display path, p itself left out.
ExistingAncestors(p) ==
    {k \in 0..(Len(p.parts) - 1) :
        \E n \in tree : full_display_path(tree, n) = PathStr(PathPrefix(p, k))}

\* C24: get_shorter_path(p) is the short path of the deepest ancestor of p
\* that the tree has by display path, followed by the rest of p as it was
\* given; it is p when the tree has no ancestor of p; and for every node A
\* the call with A's display path + "/x" gives A's short path + "/x".
C24_ShorterPathOfDeepestAncestor ==
    last_call.op = "get_shorter_path" =>
        LET p   == IF last_call.arg.is_path THEN last_call.arg.value
                   ELSE ParsePath(last_call.arg.value)
            anc == ExistingAncestors(p)
        IN  /\ anc = {} => last_call.ret = p
            /\ anc # {} =>
                  LET k == CHOOSE i \in anc : \A j \in anc : j <= i
                  IN  \E n \in tree :
                         /\ full_display_path(tree, n) = PathStr(PathPrefix(p, k))
                         /\ PathStr(last_call.ret) =
                               full_short_path(tree, n) \o <<"/">>
                               \o JoinParts(SubSeq(p.parts, k + 1, Len(p.parts)))
            /\ \A n \in tree :
                  last_call.arg = Str(full_display_path(tree, n) \o <<"/", "x">>)
                  => PathStr(last_call.ret) = full_short_path(tree, n) \o <<"/", "x">>

\* C24 witness: the call was made for a path two components below a folder
\* whose short path differs from its display path, and the tree has that
\* folder and its parent.
C24_Witness ==
    /\ last_call.op = "get_shorter_path"
    /\ last_call.arg = Str(<<"/", "u", "/", "a", "/", "b", "/", "c">>)
    /\ PathStr(last_call.ret) = <<"/", "U", "/", "A", "/", "b", "/", "c">>

\* The string the caller gave a lookup: the argument itself, or str() of it
\* when it is a Path.
Given == IF last_call.arg.is_path THEN PathStr(last_call.arg.value)
         ELSE last_call.arg.value

\* C25: get_node_for_display_path (get_node_for_short_path) returns a node of
\* the tree whose full display path (full short path) is the given path,
\* character for character, and None exactly when the tree has no such node.
C25_LookupIsExactMatch ==
    /\ last_call.op = "get_node_for_display_path" =>
          /\ \A n \in last_call.ret :
                n \in tree /\ full_display_path(tree, n) = Given
          /\ last_call.ret = {} <=>
                \A n \in tree : full_display_path(tree, n) # Given
    /\ last_call.op = "get_node_for_short_path" =>
          /\ \A n \in last_call.ret :
                n \in tree /\ full_short_path(tree, n) = Given
          /\ last_call.ret = {} <=>
                \A n \in tree : full_short_path(tree, n) # Given

\* C25 witness: the display path of a folder of the tree was looked up with
\* a trailing separator and None was returned.
C25_Witness ==
    /\ last_call.op = "get_node_for_display_path"
    /\ last_call.arg = Str(<<"/", "u", "/", "a", "/">>)
    /\ last_call.ret = {}
    /\ \E n \in tree : full_display_path(tree, n) = <<"/", "u", "/", "a">>

\* C28: Storage(...) raises StorageException and gives no tree whenever the
\* status request or the root listing request does not return a dictionary
\* payload, be it that it returns another payload or that it does not return;
\* it gives a Storage with a root node when both do and the tree is built.
\* For a status dictionary that does not name the storage path it does the
\* one or the other.
C28_StorageExceptionUnlessWellFormed ==
    last_call.op = "Storage" =>
        LET status == last_call.arg.status
            files  == last_call.arg.files
            failed == /\ last_call.ret.outcome = "StorageException"
                      /\ last_call.ret.tree = {}
            built  == /\ last_call.ret.outcome = "Storage"
                      /\ \E n \in last_call.ret.tree : ~HasParent(n)
        IN  /\ status \in {"no dict", "raise"} => failed
            /\ (status = "dict" /\ files \in {"no dict", "raise"}) => failed
            /\ (status = "dict" /\ files = "dict" /\ last_call.arg.build = "ok") => built
            /\ status = "dict without storage path" => (failed \/ built)

-----------------------------------------------------------------------------
(* reload(), checked under ProcSpec for the worker that is running *)

\* The listing requests of reload() were all answered with success.
ReloadedInFull ==
    /\ pc = "done"
    /\ \A i \in 1..Len(calls) : calls[i].op = "LIST" => calls[i].result = "ok"

\* C27: after a reload() whose listing requests all succeeded, the nodes
\* below the root are exactly the entries the device holds now (same names
\* from the root down, same kind), the root node is kept, and nothing else
\* is in the tree.
C27_ReloadRebuildsFromDevice ==
    ReloadedInFull =>
        /\ {n \in tree : HasParent(n)} = {n \in device : HasParent(n)}
        /\ \E r \in tree : ~HasParent(r) /\ \A q \in tree : ~HasParent(q) => q = r
        /\ \A n \in tree : HasParent(n) => ParentNode(tree, n) \in tree

\* C27 witness: a reload with every listing answered has put into the tree a
\* file the device did not hold when process() was entered, and has left out
\* a file it held then and that was deleted since.
C27_Witness ==
    /\ ReloadedInFull
    /\ cur \in Printers
    /\ \E n \in tree : ~is_dir(n) /\ n \notin DeviceOf(cur)
    /\ \E n \in DeviceOf(cur) : n \notin tree
    /\ \E i \in 1..Len(calls) : calls[i].op = "LIST"

-----------------------------------------------------------------------------
(* The contract of FileNode, checked under NodeSpec *)

\* What node.full_short_path and node.full_display_path give when read now.
ShortPathNow(n) == FileNode_full_short_path(file_nodes, n).value

DisplayPathNow(n) == FileNode_full_display_path(file_nodes, n).value

\* C26: every node's full_short_path is its parent's full_short_path + "/" +
\* name ("/" + name for the root) and its full_display_path is the same with
\* display_name, or name when there is none, for the parent and the names
\* the node has now.
C26_PathsFollowCurrentParentChain ==
    \A n \in DOMAIN file_nodes :
        LET o == file_nodes[n]
        IN  IF o.parent_node = "None"
            THEN /\ ShortPathNow(n) = <<"/">> \o o.name
                 /\ DisplayPathNow(n) = <<"/">> \o FileNode_DisplayOrName(o)
            ELSE /\ ShortPathNow(n) = ShortPathNow(o.parent_node) \o <<"/">> \o o.name
                 /\ DisplayPathNow(n) = DisplayPathNow(o.parent_node) \o <<"/">>
                                         \o FileNode_DisplayOrName(o)

\* C31: m_datetime is None exactly when the node's m_timestamp is absent or
\* 0; for every other timestamp it is the datetime of that timestamp.
C31_NoDatetimeIffNoTimestampOrZero ==
    last_call.op = "m_datetime" =>
        LET n == last_call.arg
        IN  /\ last_call.ret = {} <=> (~n.has_ts \/ n.m_timestamp = 0)
            /\ last_call.ret # {} => last_call.ret = {n.m_timestamp}

\* C31 witness: m_datetime was read, and was None, for a node whose
\* m_timestamp is 0, in a tree that also has a node without a timestamp and
\* one with a timestamp that is not 0.
C31_Witness ==
    /\ last_call.op = "m_datetime"
    /\ last_call.arg.has_ts /\ last_call.arg.m_timestamp = 0
    /\ last_call.ret = {}
    /\ \E n \in tree : ~n.has_ts
    /\ \E n \in tree : n.has_ts /\ n.m_timestamp # 0

\* C32: gen_nodes(start) yields start and every node below it, each once,
\* a node before the nodes below it, and no other node; called without a
\* start it yields the nodes of the whole tree.
C32_GenNodesIsPreorderOfSubtree ==
    last_call.op = "gen_nodes" =>
        LET start   == IF last_call.arg = {} THEN RootNode(tree)
                       ELSE CHOOSE n \in last_call.arg : TRUE
            yielded == last_call.ret
        IN  /\ {yielded[i] : i \in 1..Len(yielded)} =
                  {start} \cup {m \in tree : IsAncestor(start, m)}
            /\ \A i, j \in 1..Len(yielded) : yielded[i] = yielded[j] => i = j
            /\ \A i, j \in 1..Len(yielded) :
                  IsAncestor(yielded[i], yielded[j]) => i < j
            /\ last_call.arg = {} =>
                  {yielded[i] : i \in 1..Len(yielded)} = gen_nodes(tree)

\* C32 witness: the traversal was started at a folder that is not the root
\* and has two files in it, in a tree with another folder and its file
\* outside it.
C32_Witness ==
    /\ last_call.op = "gen_nodes"
    /\ \E n \in last_call.arg : HasParent(n)
    /\ Len(last_call.ret) = 3
    /\ \E m \in tree : /\ ~is_dir(m)
                        /\ \A i \in 1..Len(last_call.ret) : last_call.ret[i] # m

-----------------------------------------------------------------------------
(* The shape of the tree, checked under ProcSpec for every printer *)

\* The trees that construction and reload have built so far.
BuiltTrees == {WorkerState(d).tree : d \in Printers} \ {{}}

-----------------------------------------------------------------------------
(* _build_storage, checked under Spec on the rebuild of reload() *)

\* The places of the log that hold listing requests.
ListCalls == {i \in 1..Len(calls) : calls[i].op = "LIST"}

\* C34: _build_storage comes to its end, having made one listing request for
\* the root and for each FOLDER node, at that node's full short path, and
\* none for another node; a listing that failed, be it answered with a
\* non-success status or raised, leaves its folder without children and
\* raises nothing.
C34_OneListingPerFolderNoRaise ==
    /\ (pc = "done" /\ ListCalls # {}) =>
          /\ \A n \in tree :
                Cardinality({i \in ListCalls :
                               calls[i].path = full_short_path(tree, n)})
                   = IF is_dir(n) THEN 1 ELSE 0
          /\ \A i \in ListCalls :
                \E n \in tree : is_dir(n) /\ calls[i].path = full_short_path(tree, n)
          /\ \A i \in ListCalls : \A n \in tree :
                (calls[i].result # "ok" /\ calls[i].path = full_short_path(tree, n))
                => child_nodes(tree, n) = {}
    /\ ListCalls # {} => pc # "raised"

-----------------------------------------------------------------------------
(* upload_file and the deletes of _sync, checked under Spec *)

\* The tree is still the one the plan was computed from.
BeforeReload == pc \in {"prune", "upload", "reload"}

\* The parent directory of the path of an upload request.
ParentOfUpload(i) == PathStr(PathParent(ParsePath(calls[i].path)))

\* C35: an upload request is preceded by a create-folder request exactly
\* when no node has the short path of the target's parent directory; the
\* create-folder request is made for that parent directory, never for the
\* path the file is uploaded to, and is followed by the upload whatever its
\* outcome.
C35_FolderCreatedForParentOnly ==
    BeforeReload =>
        /\ \A i \in 1..Len(calls) :
              calls[i].op = "UPLOAD" =>
                 LET made == i > 1 /\ calls[i - 1].op = "MKDIR"
                 IN  /\ made <=> \A n \in tree :
                                    full_short_path(tree, n) # ParentOfUpload(i)
                     /\ made => /\ calls[i - 1].path = ParentOfUpload(i)
                                /\ calls[i - 1].path # calls[i].path
        /\ \A j \in 1..Len(calls) :
              calls[j].op = "MKDIR" =>
                 /\ j < Len(calls)
                 /\ calls[j + 1].op = "UPLOAD"
                 /\ calls[j + 1].item = calls[j].item

\* The objects gen_missing_or_stale_files yields on a machine whose local
\* time is offset seconds ahead of UTC.
YieldedAt(offset) ==
    LET s == gen_missing_or_stale_files(tree, destination_path, local_files,
                                        relative_to_path, offset)
    IN  {s[i] : i \in 1..Len(s)}

\* C36: for the same modification times and the same m_timestamps the
\* planner yields the same missing and stale files whatever the UTC offset
\* of the machine is.
C36_StaleIndependentOfUtcOffset ==
    Planned =>
        \A offset \in Offsets :
            {missing_files[i] : i \in 1..Len(missing_files)} = YieldedAt(offset)

\* A folder with a timestamp, as the device lists folders, shown as "r",
\* and a file in it.
FolderR == Node(<< <<"U">>, <<"A">>, <<"R">> >>, <<"r">>, "FOLDER", TRUE, 1000)

FileRX == Node(<< <<"U">>, <<"A">>, <<"R">>, <<"X", ".", "G">> >>,
               <<"x", ".", "g">>, "PRINT_FILE", TRUE, 1000)

DirTrees == {{RootU, FolderA, FolderR, FileRX}}

\* _sync called for a printer that has a folder where a local file goes.
DirInit ==
    /\ InputsFrom(DirTrees, SyncLocalSets, SyncDestinations, Bases, {0})
    /\ pc = "start"
    /\ printer_state = "unset"
    /\ OneWorker
    /\ NoDirectUse

DirSpec == DirInit /\ [][Next]_vars

\* The nodes of the planning snapshot a DELETE request is sent for.
Deleted(i) == {n \in tree : full_short_path(tree, n) = calls[i].path}

\* C37: no DELETE request of _sync is sent for a FOLDER node: no path of the
\* excess set is that of a folder, and neither the pruning nor the delete
\* before the upload of a stale file targets a folder.
C37_NoDeleteTargetsFolder ==
    BeforeReload =>
        /\ \A p \in excess_files : \A n \in tree :
              full_display_path(tree, n) = PathStr(p) => ~is_dir(n)
        /\ \A i \in 1..Len(calls) :
              calls[i].op = "DELETE" => \A n \in Deleted(i) : ~is_dir(n)

\* The places of calls that are DELETE requests.
DeleteCalls == {i \in 1..Len(calls) : calls[i].op = "DELETE"}

\* The nodes the paths of the excess set resolve to.
ExcessNodes ==
    UNION {get_node_for_display_path(tree, PathStr(p)) : p \in excess_files}

\* The nodes the stale targets resolve to.
StaleNodes ==
    UNION {get_node_for_display_path(tree, PathStr(missing_files[i].remote_path)) :
             i \in {k \in 1..Len(missing_files) : missing_files[k].is_stale}}

\* C38: in one execute run no node is sent two DELETE requests: the nodes of
\* the excess set and those of the stale targets are disjoint, and every
\* DELETE is for the short path of a node of the planning snapshot.
C38_AtMostOneDeletePerNode ==
    BeforeReload =>
        /\ ExcessNodes \cap StaleNodes = {}
        /\ \A i \in DeleteCalls : Deleted(i) # {}
        /\ \A i, j \in DeleteCalls : calls[i].path = calls[j].path => i = j

\* An excess file was deleted and a stale file was deleted before its upload.
C38_Witness ==
    /\ pc = "reload"
    /\ \E i, j \in DeleteCalls :
          /\ calls[i].phase = "prune" /\ calls[i].result = "ok"
          /\ calls[j].phase = "upload" /\ calls[j].result = "ok"
          /\ calls[i].path # calls[j].path
    /\ StaleNodes # {}
    /\ ExcessNodes # {}

\* The calls a step adds to the log.
NewCalls == {calls'[i] : i \in (Len(calls) + 1)..Len(calls')}

\* One step taken from the tree as it stands: the tree stays, and the
\* requests of the step are worked out from it.
AnsweredFromTree ==
    /\ tree' = tree
    /\ \A c \in NewCalls :
          /\ c.op = "DELETE" =>
                \E n \in tree : full_short_path(tree, n) = c.path
          /\ c.op = "MKDIR" =>
                \A n \in tree : full_short_path(tree, n) # c.path
          /\ c.op = "UPLOAD" =>
                c.path = PathStr(get_shorter_path(tree, ParsePath(c.item)))

\* C39: from the plan up to the reload no step changes the tree, and every
\* request of the apply phase is worked out from that tree: a DELETE is for
\* the short path of one of its nodes, a folder is created only at a path
\* none of its nodes has, and an upload goes to the path get_shorter_path
\* gives in it.
C39_TreeUnchangedUntilReload ==
    [][(pc \in {"plan", "reported", "prune", "upload"}) => AnsweredFromTree]_vars

\* Two files went into a folder the tree does not have: the folder was
\* created for the first, on the device only, and asked for again for the
\* second.
C39_Witness ==
    /\ pc = "reload"
    /\ device # tree
    /\ \E i, j \in 1..Len(calls) :
          /\ i < j
          /\ calls[i].op = "MKDIR" /\ calls[i].result = "ok"
          /\ calls[j].op = "MKDIR" /\ calls[j].path = calls[i].path
          /\ \E e \in device : e.type = "FOLDER" /\ e \notin tree

====
